---- MODULE Spec2Model ----
(***************************************************************************)
(* A model of dolfinx.la (python/dolfinx/la/__init__.py): the Vector and   *)
(* MatrixCSR wrappers, the dtype dispatch of vector() and matrix_csr(),    *)
(* MatrixCSR.to_scipy, and the distributed engine the wrappers forward to  *)
(* (ghost exchange, CSR insertion, norms, collectives).                    *)
(*                                                                         *)
(* The module holds one specification per part of the library; each leaves *)
(* the variables of the other parts at their idle values.                  *)
(***************************************************************************)
EXTENDS Integers, Sequences, FiniteSets, TLC

VARIABLES
    \* ---- Vector / cached PETSc wrapper (Vector.__init__, petsc_vec, __del__)
    has_petsc4py,   \* dolfinx.has_petsc4py of the build
    vobj,           \* per Vector object: life, _petsc_x, accesses, values returned
    createLog,      \* calls of create_vector_wrap: <<[vec, wrap], ...>>
    destroyLog,     \* calls of wrapper.destroy(): <<[vec, wrap], ...>>
    \* ---- dtype dispatch (vector(), matrix_csr())
    nativeObjs,     \* native objects constructed so far (their type names)
    dlast,          \* the last factory call: its arguments and its outcome
    \* ---- MatrixCSR.to_scipy on one worker's local matrix
    smat,           \* the local matrix: block sizes, index maps, data/indices/indptr
    sres,           \* what the last to_scipy call returned
    \* ---- collectives: each worker runs its own sequence of collective calls
    cprog,          \* per worker: the collective calls its program makes, in order
    cdone,          \* per worker: how many of its calls have returned
    cin,            \* per worker: "out", or "in" (blocked inside a call), or "hung"
    cent,           \* per worker: the native collectives it has entered, in order
    \* ---- a distributed Vector: its index map and each worker's local array
    xowner,         \* the worker that owns each global index
    xghosts,        \* per worker: the global indices it holds as ghosts
    xarr,           \* per worker: the local array, owned entries first, then ghosts
    xlast,          \* the last operation on the vector, and what it returned
    \* ---- a distributed MatrixCSR: its maps, pattern and each worker's arrays
    mowner,         \* the worker that owns each global row (and column)
    mghosts,        \* per worker: the global rows it holds as ghost rows
    mpat,           \* the sparsity pattern: the global (row, column) pairs stored
    mindptr,        \* per worker: the local row pointers
    mindices,       \* per worker: the local column index of every stored entry
    mdata,          \* per worker: the stored values
    mlast,          \* the last operation on the matrix, and what it did
    mtrack          \* whether mlast keeps the arguments and the data before the call

vecVars  == <<has_petsc4py, vobj, createLog, destroyLog>>
dispVars == <<nativeObjs, dlast>>
scipyVars == <<smat, sres>>
collVars == <<cprog, cdone, cin, cent>>
dvecVars == <<xowner, xghosts, xarr, xlast>>
matVars  == <<mowner, mghosts, mpat, mindptr, mindices, mdata, mlast, mtrack>>
vars     == <<vecVars, dispVars, scipyVars, collVars, dvecVars, matVars>>

None == 0

Min(a, b) == IF a < b THEN a ELSE b
Max(a, b) == IF a > b THEN a ELSE b
Abs(a)    == IF a < 0 THEN -a ELSE a

\* The elements of a finite set of integers, in increasing order.
RECURSIVE SetToSortedSeq(_)
SetToSortedSeq(S) ==
    IF S = {} THEN <<>>
    ELSE LET m == CHOOSE x \in S : \A y \in S : x <= y
         IN <<m>> \o SetToSortedSeq(S \ {m})

(***************************************************************************)
(* Part 1. Vector and its cached PETSc wrapper.                            *)
(***************************************************************************)
NumVectors == 2
MaxAccess  == 3

VecIds == 1..NumVectors

IdleVec ==
    /\ has_petsc4py = TRUE
    /\ vobj = [v \in VecIds |-> [life |-> "unborn", petsc_x |-> None,
                                 attempts |-> 0, accessed |-> 0, returned |-> {}]]
    /\ createLog = <<>>
    /\ destroyLog = <<>>

InitVec ==
    /\ has_petsc4py \in BOOLEAN
    /\ vobj = [v \in VecIds |-> [life |-> "unborn", petsc_x |-> None,
                                 attempts |-> 0, accessed |-> 0, returned |-> {}]]
    /\ createLog = <<>>
    /\ destroyLog = <<>>

\* dolfinx.la.petsc.create_vector_wrap(x): a new PETSc Vec over x's data.
\* Every call makes a wrapper object of its own.
create_vector_wrap == Len(createLog) + 1

\* Vector.__init__: self._petsc_x = None
Vector_init(v) ==
    /\ vobj[v].life = "unborn"
    /\ vobj' = [vobj EXCEPT ![v].life = "live", ![v].petsc_x = None]
    /\ UNCHANGED <<has_petsc4py, createLog, destroyLog>>

\* A faulty petsc_vec: no cache test, a wrapper is made on every access.
petsc_vec_nocache(v) ==
    /\ vobj[v].life = "live"
    /\ vobj[v].attempts < MaxAccess
    /\ has_petsc4py
    /\ LET w == create_vector_wrap
       IN /\ createLog' = Append(createLog, [vec |-> v, wrap |-> w])
          /\ vobj' = [vobj EXCEPT ![v].petsc_x = w,
                                  ![v].attempts = @ + 1,
                                  ![v].accessed = @ + 1,
                                  ![v].returned = @ \cup {w}]
    /\ UNCHANGED <<has_petsc4py, destroyLog>>

\* Vector.petsc_vec (property): assert has_petsc4py; create the wrapper when
\* _petsc_x is None; return _petsc_x. A failed assert raises and changes
\* nothing but the count of attempts.
petsc_vec(v) ==
    /\ vobj[v].life = "live"
    /\ vobj[v].attempts < MaxAccess
    /\ IF ~has_petsc4py
       THEN /\ vobj' = [vobj EXCEPT ![v].attempts = @ + 1]
            /\ UNCHANGED createLog
       ELSE IF vobj[v].petsc_x = None
            THEN LET w == create_vector_wrap
                 IN /\ createLog' = Append(createLog, [vec |-> v, wrap |-> w])
                    /\ vobj' = [vobj EXCEPT ![v].petsc_x = w,
                                            ![v].attempts = @ + 1,
                                            ![v].accessed = @ + 1,
                                            ![v].returned = @ \cup {w}]
            ELSE /\ vobj' = [vobj EXCEPT ![v].attempts = @ + 1,
                                         ![v].accessed = @ + 1,
                                         ![v].returned = @ \cup {vobj[v].petsc_x}]
                 /\ UNCHANGED createLog
    /\ UNCHANGED <<has_petsc4py, destroyLog>>

\* A faulty __del__: the wrapper is never released.
Vector_del_leak(v) ==
    /\ vobj[v].life = "live"
    /\ vobj' = [vobj EXCEPT ![v].life = "dead"]
    /\ UNCHANGED <<has_petsc4py, createLog, destroyLog>>

\* Vector.__del__: if self._petsc_x is not None: self._petsc_x.destroy()
Vector_del(v) ==
    /\ vobj[v].life = "live"
    /\ vobj' = [vobj EXCEPT ![v].life = "dead"]
    /\ destroyLog' = IF vobj[v].petsc_x # None
                     THEN Append(destroyLog, [vec |-> v, wrap |-> vobj[v].petsc_x])
                     ELSE destroyLog
    /\ UNCHANGED <<has_petsc4py, createLog>>

NextVec ==
    \/ \E v \in VecIds : Vector_init(v) /\ UNCHANGED <<dispVars, scipyVars, collVars, dvecVars, matVars>>
    \/ \E v \in VecIds : petsc_vec(v) /\ UNCHANGED <<dispVars, scipyVars, collVars, dvecVars, matVars>>
    \/ \E v \in VecIds : Vector_del(v) /\ UNCHANGED <<dispVars, scipyVars, collVars, dvecVars, matVars>>

DestroyCount(v) == Cardinality({i \in 1..Len(destroyLog) : destroyLog[i].vec = v})
CreateCount(v)  == Cardinality({i \in 1..Len(createLog) : createLog[i].vec = v})

\* C1: the cached wrapper's destroy() is called exactly once, at the Vector's
\* destruction and not before, when petsc_vec returned a wrapper at least
\* once; it is never called when petsc_vec was never accessed.
C1_DestroyOnceAtDel ==
    \A v \in VecIds :
        /\ vobj[v].life # "dead" => DestroyCount(v) = 0
        /\ (vobj[v].life = "dead" /\ vobj[v].accessed >= 1) =>
              /\ DestroyCount(v) = 1
              /\ \A i \in 1..Len(destroyLog) :
                    destroyLog[i].vec = v =>
                        /\ destroyLog[i].wrap = vobj[v].petsc_x
                        /\ destroyLog[i].wrap \in vobj[v].returned
        /\ (vobj[v].life = "dead" /\ vobj[v].accessed = 0) => DestroyCount(v) = 0

\* A Vector accessed twice and destroyed, beside one destroyed unaccessed.
C1_Witness ==
    \E v, u \in VecIds :
        /\ vobj[v].life = "dead" /\ vobj[v].accessed >= 2 /\ DestroyCount(v) = 1
        /\ vobj[u].life = "dead" /\ vobj[u].accessed = 0 /\ DestroyCount(u) = 0

\* C2: create_vector_wrap is called at most once per Vector, every access
\* returns the one cached wrapper, and a new Vector holds no wrapper.
C2_WrapperCached ==
    \A v \in VecIds :
        /\ CreateCount(v) <= 1
        /\ vobj[v].returned \subseteq {vobj[v].petsc_x}
        /\ vobj[v].accessed >= 1 =>
              /\ CreateCount(v) = 1
              /\ vobj[v].petsc_x # None
              /\ vobj[v].returned = {vobj[v].petsc_x}
        /\ (vobj[v].life = "live" /\ vobj[v].attempts = 0) =>
              (vobj[v].petsc_x = None /\ CreateCount(v) = 0)

\* A live Vector accessed three times, holding its one wrapper.
C2_Witness ==
    \E v \in VecIds :
        /\ vobj[v].life = "live" /\ vobj[v].accessed = MaxAccess
        /\ CreateCount(v) = 1 /\ vobj[v].petsc_x # None

(***************************************************************************)
(* Part 2. Scalar type dispatch of vector() and matrix_csr().              *)
(***************************************************************************)
MaxCalls == 2

\* numpy's scalar type classes: the sized ones, and the abstract ones above
\* them.
SizedTypes == {"bool_", "int8", "int16", "int32", "int64",
               "uint8", "uint16", "uint32", "uint64",
               "float16", "float32", "float64", "longdouble",
               "complex64", "complex128", "clongdouble"}
AbstractTypes == {"generic", "number", "integer", "signedinteger",
                  "unsignedinteger", "inexact", "floating", "complexfloating"}
\* What is not a numpy scalar class and goes through np.dtype(arg).type:
\* the Python builtins and dtype names given as strings.
PyTypes == {"py_bool", "py_int", "py_float", "py_complex",
            "str_float32", "str_float64", "str_int32", "str_complex64"}
DTypeArgs == SizedTypes \cup AbstractTypes \cup PyTypes

\* The base class of each numpy scalar class.
Parent(t) ==
    CASE t \in {"number", "bool_"} -> "generic"
      [] t \in {"integer", "inexact"} -> "number"
      [] t \in {"signedinteger", "unsignedinteger"} -> "integer"
      [] t \in {"int8", "int16", "int32", "int64"} -> "signedinteger"
      [] t \in {"uint8", "uint16", "uint32", "uint64"} -> "unsignedinteger"
      [] t \in {"floating", "complexfloating"} -> "inexact"
      [] t \in {"float16", "float32", "float64", "longdouble"} -> "floating"
      [] t \in {"complex64", "complex128", "clongdouble"} -> "complexfloating"
      [] OTHER -> "generic"

RECURSIVE issubclass(_, _)
issubclass(a, b) ==
    IF a = b THEN TRUE
    ELSE IF a = "generic" THEN FALSE
    ELSE issubclass(Parent(a), b)

\* np.dtype(arg).type for an argument that is no numpy scalar class.
dtype_type(arg) ==
    CASE arg = "py_bool" -> "bool_"
      [] arg = "py_int" -> "int64"
      [] arg = "py_float" -> "float64"
      [] arg = "py_complex" -> "complex128"
      [] arg = "str_float32" -> "float32"
      [] arg = "str_float64" -> "float64"
      [] arg = "str_int32" -> "int32"
      [] arg = "str_complex64" -> "complex64"
      [] OTHER -> arg

\* np.issubdtype(arg1, arg2): an argument that is not a subclass of
\* np.generic is replaced by np.dtype(arg).type; then issubclass(arg1, arg2).
issubdtype(arg1, arg2) ==
    LET a1 == IF arg1 \in SizedTypes \cup AbstractTypes THEN arg1 ELSE dtype_type(arg1)
        a2 == IF arg2 \in SizedTypes \cup AbstractTypes THEN arg2 ELSE dtype_type(arg2)
    IN issubclass(a1, a2)

\* A faulty matrix_csr chain: a dtype no branch takes falls back to float64
\* where the chain raises.
matrix_csr_ftype_fallback(dtype) ==
    IF issubdtype(dtype, "float32") THEN "MatrixCSR_float32"
    ELSE IF issubdtype(dtype, "float64") THEN "MatrixCSR_float64"
    ELSE IF issubdtype(dtype, "complex64") THEN "MatrixCSR_complex64"
    ELSE IF issubdtype(dtype, "complex128") THEN "MatrixCSR_complex128"
    ELSE "MatrixCSR_float64"

\* matrix_csr: the if/elif chain choosing ftype; "raise" stands for
\* NotImplementedError.
matrix_csr_ftype(dtype) ==
    IF issubdtype(dtype, "float32") THEN "MatrixCSR_float32"
    ELSE IF issubdtype(dtype, "float64") THEN "MatrixCSR_float64"
    ELSE IF issubdtype(dtype, "complex64") THEN "MatrixCSR_complex64"
    ELSE IF issubdtype(dtype, "complex128") THEN "MatrixCSR_complex128"
    ELSE "raise"

\* vector: the if/elif chain choosing vtype.
vector_vtype(dtype) ==
    IF issubdtype(dtype, "float32") THEN "Vector_float32"
    ELSE IF issubdtype(dtype, "float64") THEN "Vector_float64"
    ELSE IF issubdtype(dtype, "complex64") THEN "Vector_complex64"
    ELSE IF issubdtype(dtype, "complex128") THEN "Vector_complex128"
    ELSE IF issubdtype(dtype, "int8") THEN "Vector_int8"
    ELSE IF issubdtype(dtype, "int32") THEN "Vector_int32"
    ELSE IF issubdtype(dtype, "int64") THEN "Vector_int64"
    ELSE "raise"

NoCall == [fn |-> "none", dtype |-> "none", raised |-> FALSE, native |-> "none",
           before |-> 0]

IdleDisp ==
    /\ nativeObjs = <<>>
    /\ dlast = NoCall

InitDisp == IdleDisp

\* matrix_csr(sp, block_mode, dtype): MatrixCSR(ftype(sp, block_mode)), or
\* the raise before anything is constructed.
matrix_csr(dtype) ==
    /\ Len(nativeObjs) < MaxCalls
    /\ LET ftype == matrix_csr_ftype(dtype)
       IN IF ftype = "raise"
          THEN /\ dlast' = [fn |-> "matrix_csr", dtype |-> dtype, raised |-> TRUE,
                            native |-> "none", before |-> Len(nativeObjs)]
               /\ UNCHANGED nativeObjs
          ELSE /\ nativeObjs' = Append(nativeObjs, ftype)
               /\ dlast' = [fn |-> "matrix_csr", dtype |-> dtype, raised |-> FALSE,
                            native |-> ftype, before |-> Len(nativeObjs)]

\* vector(map, bs, dtype): Vector(vtype(map, bs)), or the raise.
vector(dtype) ==
    /\ Len(nativeObjs) < MaxCalls
    /\ LET vtype == vector_vtype(dtype)
       IN IF vtype = "raise"
          THEN /\ dlast' = [fn |-> "vector", dtype |-> dtype, raised |-> TRUE,
                            native |-> "none", before |-> Len(nativeObjs)]
               /\ UNCHANGED nativeObjs
          ELSE /\ nativeObjs' = Append(nativeObjs, vtype)
               /\ dlast' = [fn |-> "vector", dtype |-> dtype, raised |-> FALSE,
                            native |-> vtype, before |-> Len(nativeObjs)]

NextDisp ==
    \/ \E d \in DTypeArgs : matrix_csr(d) /\ UNCHANGED <<vecVars, scipyVars, collVars, dvecVars, matVars>>
    \/ \E d \in DTypeArgs : vector(d) /\ UNCHANGED <<vecVars, scipyVars, collVars, dvecVars, matVars>>

VectorScalars == {"float32", "float64", "complex64", "complex128",
                  "int8", "int32", "int64"}
MatrixScalars == {"float32", "float64", "complex64", "complex128"}

\* The scalar type a native class is instantiated for.
NativeScalar(n) ==
    CASE n \in {"Vector_float32", "MatrixCSR_float32"} -> "float32"
      [] n \in {"Vector_float64", "MatrixCSR_float64"} -> "float64"
      [] n \in {"Vector_complex64", "MatrixCSR_complex64"} -> "complex64"
      [] n \in {"Vector_complex128", "MatrixCSR_complex128"} -> "complex128"
      [] n = "Vector_int8" -> "int8"
      [] n = "Vector_int32" -> "int32"
      [] n = "Vector_int64" -> "int64"
      [] OTHER -> "none"

NativeIsVector(n) ==
    n \in {"Vector_float32", "Vector_float64", "Vector_complex64",
           "Vector_complex128", "Vector_int8", "Vector_int32", "Vector_int64"}

\* C3: vector() constructs exactly for the seven vector scalar types and
\* matrix_csr() exactly for the four floating ones; any other dtype raises
\* before a native object exists; the native type is the one asked for.
C3_DtypeDispatch ==
    dlast.fn # "none" =>
        LET t == dtype_type(dlast.dtype)
            allowed == IF dlast.fn = "vector" THEN VectorScalars ELSE MatrixScalars
        IN /\ (~dlast.raised) <=> (t \in allowed)
           /\ dlast.raised =>
                 (dlast.native = "none" /\ Len(nativeObjs) = dlast.before)
           /\ ~dlast.raised =>
                 /\ Len(nativeObjs) = dlast.before + 1
                 /\ nativeObjs[Len(nativeObjs)] = dlast.native
                 /\ NativeScalar(dlast.native) = t
                 /\ NativeIsVector(dlast.native) <=> (dlast.fn = "vector")

\* int32 made a vector, and was then refused for a matrix.
C3_Witness ==
    /\ dlast.fn = "matrix_csr" /\ dlast.dtype = "int32" /\ dlast.raised
    /\ nativeObjs = <<"Vector_int32">>

(***************************************************************************)
(* Part 3. MatrixCSR.to_scipy on one worker's local matrix.                *)
(***************************************************************************)
MaxRows == 2
MaxCols == 2
MaxBs   == 2

\* Python's 0-based s[i] and s[:k] (k >= 0) on a sequence.
At0(s, i)    == s[i + 1]
Slice0(s, k) == SubSeq(s, 1, Min(k, Len(s)))

RECURSIVE Concat(_, _)
\* rows[1] \o ... \o rows[n]
Concat(rows, n) == IF n = 0 THEN <<>> ELSE Concat(rows, n - 1) \o rows[n]

\* The CSR arrays of a pattern given as the column set of each local row:
\* indptr has one more entry than there are rows, starts at 0 and never
\* decreases; indices[indptr[i]:indptr[i+1]] are row i's local columns.
CsrIndptr(rowCols, nr) ==
    [i \in 1..(nr + 1) |->
        Len(Concat([r \in 1..nr |-> SetToSortedSeq(rowCols[r])], i - 1))]
CsrIndices(rowCols, nr) ==
    Concat([r \in 1..nr |-> SetToSortedSeq(rowCols[r])], nr)

\* A local matrix as create() leaves it, its data tagged by position so that
\* every stored scalar is told apart.
LocalMatrices ==
    UNION { UNION { UNION {
        { [bs0 |-> b0, bs1 |-> b1,
           rsl |-> rsl, rng |-> nr - rsl,
           csl |-> csl, cng |-> nc - csl,
           indptr |-> CsrIndptr(rc, nr),
           indices |-> CsrIndices(rc, nr),
           data |-> [k \in 1..(b0 * b1 * Len(CsrIndices(rc, nr))) |-> k]] :
          rc \in [1..nr -> SUBSET (0..(nc - 1))] } :
        rsl \in 0..nr, csl \in 1..nc } :
        nr \in 0..MaxRows, nc \in 1..MaxCols } :
        b0 \in 1..MaxBs, b1 \in 1..MaxBs }

NoResult == [called |-> FALSE]

IdleScipy ==
    /\ smat = [bs0 |-> 1, bs1 |-> 1, rsl |-> 0, rng |-> 0, csl |-> 1, cng |-> 0,
               indptr |-> <<0>>, indices |-> <<>>, data |-> <<>>]
    /\ sres = NoResult

InitScipy ==
    /\ smat \in LocalMatrices
    /\ sres = NoResult

\* data.reshape(-1, bs0, bs1): the flat data cut into blocks of bs0*bs1.
Reshape(data, bsz) ==
    [b \in 1..(Len(data) \div bsz) |-> SubSeq(data, (b - 1) * bsz + 1, b * bsz)]

\* A faulty to_scipy: the flag ghosted is ignored and every row returned.
to_scipy_allrows(m, ghosted) ==
    LET bs0 == m.bs0
        bs1 == m.bs1
        ncols == m.csl + m.cng
        nrows == m.rsl + m.rng
    IN [called |-> TRUE, ghosted |-> ghosted,
        kind |-> IF bs0 = 1 /\ bs1 = 1 THEN "csr" ELSE "bsr",
        data |-> IF bs0 = 1 /\ bs1 = 1 THEN m.data ELSE Reshape(m.data, bs0 * bs1),
        indices |-> m.indices, indptr |-> m.indptr,
        nrows |-> nrows, ncols |-> ncols,
        shape |-> IF bs0 = 1 /\ bs1 = 1 THEN <<nrows, ncols>>
                  ELSE <<bs0 * nrows, bs1 * ncols>>]

\* MatrixCSR.to_scipy(ghosted): the (data, indices, indptr) triple and shape
\* handed to scipy's csr_matrix (both block sizes 1) or bsr_matrix.
to_scipy(m, ghosted) ==
    LET bs0 == m.bs0
        bs1 == m.bs1
        ncols == m.csl + m.cng
        nrows == IF ghosted THEN m.rsl + m.rng ELSE m.rsl
        nnzlocal == At0(m.indptr, nrows)
        data == IF ghosted THEN m.data ELSE Slice0(m.data, (bs0 * bs1) * nnzlocal)
        indices == IF ghosted THEN m.indices ELSE Slice0(m.indices, nnzlocal)
        indptr == IF ghosted THEN m.indptr ELSE Slice0(m.indptr, nrows + 1)
    IN [called |-> TRUE, ghosted |-> ghosted,
        kind |-> IF bs0 = 1 /\ bs1 = 1 THEN "csr" ELSE "bsr",
        data |-> IF bs0 = 1 /\ bs1 = 1 THEN data ELSE Reshape(data, bs0 * bs1),
        indices |-> indices, indptr |-> indptr,
        nrows |-> nrows, ncols |-> ncols,
        shape |-> IF bs0 = 1 /\ bs1 = 1 THEN <<nrows, ncols>>
                  ELSE <<bs0 * nrows, bs1 * ncols>>]

ToScipy(ghosted) ==
    /\ sres' = to_scipy(smat, ghosted)
    /\ UNCHANGED smat

NextScipy ==
    \/ \E g \in BOOLEAN : ToScipy(g) /\ UNCHANGED <<vecVars, dispVars, collVars, dvecVars, matVars>>

\* The local row that holds the stored block at 0-based position p.
RowOfPos(m, p) ==
    CHOOSE i \in 0..(Len(m.indptr) - 2) :
        At0(m.indptr, i) <= p /\ p < At0(m.indptr, i + 1)

\* The returned values as one flat sequence of scalars.
FlatData(r) ==
    IF r.kind = "csr" THEN r.data
    ELSE Concat(r.data, Len(r.data))

\* C4: to_scipy(ghosted=False) returns exactly the owned rows: the row
\* pointers 0..n, the first nnz = indptr[n] column indices, the first
\* bs0*bs1*nnz scalars, and no block of a ghost row; to_scipy(ghosted=True)
\* returns the full arrays with size_local + num_ghosts rows; the column
\* count is size_local + num_ghosts of the column map (in blocks; the scipy
\* shape scales rows by bs0 and columns by bs1).
C4_ToScipyOwnedRows ==
    sres.called =>
        LET n == smat.rsl
            nnz == At0(smat.indptr, n)
            bsz == smat.bs0 * smat.bs1
            total == Len(smat.indices)
        IN /\ sres.ncols = smat.csl + smat.cng
           /\ sres.shape = <<smat.bs0 * sres.nrows, smat.bs1 * sres.ncols>>
           /\ Len(sres.indptr) = sres.nrows + 1
           /\ Len(sres.indices) = sres.indptr[Len(sres.indptr)]
           /\ Len(FlatData(sres)) = bsz * Len(sres.indices)
           /\ \A k \in 1..Len(sres.data) :
                 sres.kind = "bsr" => Len(sres.data[k]) = bsz
           /\ ~sres.ghosted =>
                 /\ sres.nrows = n
                 /\ \A i \in 0..n : At0(sres.indptr, i) = At0(smat.indptr, i)
                 /\ Len(sres.indices) = nnz
                 /\ \A p \in 0..(total - 1) :
                       IF RowOfPos(smat, p) < n
                       THEN /\ p < Len(sres.indices)
                            /\ At0(sres.indices, p) = At0(smat.indices, p)
                            /\ \A j \in 0..(bsz - 1) :
                                  At0(FlatData(sres), bsz * p + j)
                                      = At0(smat.data, bsz * p + j)
                       ELSE p >= Len(sres.indices)
           /\ sres.ghosted =>
                 /\ sres.nrows = smat.rsl + smat.rng
                 /\ sres.indptr = smat.indptr
                 /\ sres.indices = smat.indices
                 /\ FlatData(sres) = smat.data

\* Owned rows only, of a block matrix that has a nonempty owned row and a
\* nonempty ghost row.
C4_Witness ==
    /\ sres.called /\ ~sres.ghosted
    /\ smat.rsl = 1 /\ smat.rng = 1
    /\ smat.bs0 = 2 /\ smat.bs1 = 2
    /\ At0(smat.indptr, 1) = 2 /\ At0(smat.indptr, 2) = 3
    /\ Len(sres.indices) = 2

(***************************************************************************)
(* Part 4. Collective calls: every worker runs a sequence of collective    *)
(* calls; a call blocks until every peer has issued the matching call.     *)
(***************************************************************************)
MaxProg == 2

CollWorkers == {0, 1}

CollectiveOps == {"Vector.scatter_forward", "Vector.scatter_reverse",
                  "MatrixCSR.scatter_reverse", "MatrixCSR.squared_norm",
                  "norm", "orthonormalize"}

\* The program text every worker runs, and what a worker makes of it: the
\* calls at the positions it keeps (it fails to make the others).
Programs == UNION {[1..n -> CollectiveOps] : n \in 0..MaxProg}
CallsKept(p, K) == [i \in 1..Cardinality(K) |-> p[SetToSortedSeq(K)[i]]]
RunsOf(p) == {CallsKept(p, K) : K \in SUBSET (1..Len(p))}

IdleColl ==
    /\ cprog = [w \in CollWorkers |-> <<>>]
    /\ cdone = [w \in CollWorkers |-> 0]
    /\ cin = [w \in CollWorkers |-> "out"]
    /\ cent = [w \in CollWorkers |-> <<>>]

InitColl ==
    /\ cprog \in UNION {[CollWorkers -> RunsOf(p)] : p \in Programs}
    /\ cdone = [w \in CollWorkers |-> 0]
    /\ cin = [w \in CollWorkers |-> "out"]
    /\ cent = [w \in CollWorkers |-> <<>>]

\* The worker is about to make the call `op`: it is outside any call and
\* `op` is the next call of its program.
AtCall(w, op) ==
    /\ cin[w] = "out"
    /\ cdone[w] < Len(cprog[w])
    /\ cprog[w][cdone[w] + 1] = op

\* The native collective: the worker enters it and stays inside until it is
\* complete.
cpp_collective(w, op) ==
    /\ cin' = [cin EXCEPT ![w] = "in"]
    /\ cent' = [cent EXCEPT ![w] = Append(@, op)]
    /\ UNCHANGED <<cprog, cdone>>

\* A faulty wrapper: it returns without forwarding to the native
\* object.
wrapper_noforward(w) ==
    /\ cdone' = [cdone EXCEPT ![w] = @ + 1]
    /\ UNCHANGED <<cprog, cin, cent>>

Vector_scatter_forward_noforward(w) ==
    /\ AtCall(w, "Vector.scatter_forward")
    /\ wrapper_noforward(w)

\* Vector.scatter_forward: self._cpp_object.scatter_forward()
Vector_scatter_forward(w) ==
    /\ AtCall(w, "Vector.scatter_forward")
    /\ cpp_collective(w, "Vector.scatter_forward")

\* Vector.scatter_reverse: self._cpp_object.scatter_reverse(mode)
Vector_scatter_reverse(w) ==
    /\ AtCall(w, "Vector.scatter_reverse")
    /\ cpp_collective(w, "Vector.scatter_reverse")

\* MatrixCSR.scatter_reverse: self._cpp_object.scatter_reverse()
MatrixCSR_scatter_reverse(w) ==
    /\ AtCall(w, "MatrixCSR.scatter_reverse")
    /\ cpp_collective(w, "MatrixCSR.scatter_reverse")

\* MatrixCSR.squared_norm: return self._cpp_object.squared_norm()
MatrixCSR_squared_norm(w) ==
    /\ AtCall(w, "MatrixCSR.squared_norm")
    /\ cpp_collective(w, "MatrixCSR.squared_norm")

\* norm: return _cpp.la.norm(x._cpp_object, type)
norm_call(w) ==
    /\ AtCall(w, "norm")
    /\ cpp_collective(w, "norm")

\* orthonormalize: _cpp.la.orthonormalize([x._cpp_object for x in basis])
orthonormalize_call(w) ==
    /\ AtCall(w, "orthonormalize")
    /\ cpp_collective(w, "orthonormalize")

\* Every peer has entered its k-th native collective.
PeersEntered(w, k) == \A u \in CollWorkers : Len(cent[u]) >= k

\* Every peer's k-th native collective is the one w is in.
PeersMatch(w, k) == \A u \in CollWorkers : cent[u][k] = cent[w][k]

\* The collective w is blocked in completes: every peer has issued it.
\* (When the peers' calls differ the behaviour is undefined: the call may
\* return, or hang as in CollectiveHang.)
CollectiveReturn(w) ==
    /\ cin[w] = "in"
    /\ PeersEntered(w, Len(cent[w]))
    /\ cin' = [cin EXCEPT ![w] = "out"]
    /\ cdone' = [cdone EXCEPT ![w] = @ + 1]
    /\ UNCHANGED <<cprog, cent>>

\* Divergent collective sequences: the call may never return.
CollectiveHang(w) ==
    /\ cin[w] = "in"
    /\ PeersEntered(w, Len(cent[w]))
    /\ ~PeersMatch(w, Len(cent[w]))
    /\ cin' = [cin EXCEPT ![w] = "hung"]
    /\ UNCHANGED <<cprog, cdone, cent>>

WorkerStep(w) ==
    /\ \/ Vector_scatter_forward(w)
       \/ Vector_scatter_reverse(w)
       \/ MatrixCSR_scatter_reverse(w)
       \/ MatrixCSR_squared_norm(w)
       \/ norm_call(w)
       \/ orthonormalize_call(w)
       \/ CollectiveReturn(w)
       \/ CollectiveHang(w)
    /\ UNCHANGED <<vecVars, dispVars, scipyVars, dvecVars, matVars>>

NextColl ==
    \/ \E w \in CollWorkers : Vector_scatter_forward(w) /\ UNCHANGED <<vecVars, dispVars, scipyVars, dvecVars, matVars>>
    \/ \E w \in CollWorkers : Vector_scatter_reverse(w) /\ UNCHANGED <<vecVars, dispVars, scipyVars, dvecVars, matVars>>
    \/ \E w \in CollWorkers : MatrixCSR_scatter_reverse(w) /\ UNCHANGED <<vecVars, dispVars, scipyVars, dvecVars, matVars>>
    \/ \E w \in CollWorkers : MatrixCSR_squared_norm(w) /\ UNCHANGED <<vecVars, dispVars, scipyVars, dvecVars, matVars>>
    \/ \E w \in CollWorkers : norm_call(w) /\ UNCHANGED <<vecVars, dispVars, scipyVars, dvecVars, matVars>>
    \/ \E w \in CollWorkers : orthonormalize_call(w) /\ UNCHANGED <<vecVars, dispVars, scipyVars, dvecVars, matVars>>
    \/ \E w \in CollWorkers : CollectiveReturn(w) /\ UNCHANGED <<vecVars, dispVars, scipyVars, dvecVars, matVars>>
    \/ \E w \in CollWorkers : CollectiveHang(w) /\ UNCHANGED <<vecVars, dispVars, scipyVars, dvecVars, matVars>>

\* The calls a worker has started: those returned and the one it is in.
Started(w) == cdone[w] + (IF cin[w] = "out" THEN 0 ELSE 1)

\* No call has returned before every peer started the matching call.
CollBlocksUntilPeers ==
    \A w, u \in CollWorkers : cdone[w] <= Started(u)

AllSamePrograms == \A w, u \in CollWorkers : cprog[w] = cprog[u]
AllCallsReturned == \A w \in CollWorkers : cdone[w] = Len(cprog[w]) /\ cin[w] = "out"

\* The length of the shortest program.
ShortestProg ==
    CHOOSE m \in 0..MaxProg :
        /\ \E w \in CollWorkers : Len(cprog[w]) = m
        /\ \A w \in CollWorkers : Len(cprog[w]) >= m

\* Some worker stops calling while a peer goes on, and the programs agree
\* as far as the shortest goes.
SomeWorkerStopsShort ==
    /\ \E w \in CollWorkers : Len(cprog[w]) > ShortestProg
    /\ \A w, u \in CollWorkers : \A k \in 1..ShortestProg : cprog[w][k] = cprog[u][k]

\* Every worker whose program goes on is blocked in the call its peer never
\* makes.
PeersBlockedForGood ==
    \A w \in CollWorkers :
        Len(cprog[w]) > ShortestProg =>
            (cin[w] = "in" /\ cdone[w] = ShortestProg)

\* C5: a collective call returns only once every peer has issued the
\* matching call; when every worker issues the same sequence of calls every
\* call eventually returns; when a worker stops short of a call its peers
\* make, those peers end blocked in that call for ever.
C5_CollectivesBlock ==
    /\ []CollBlocksUntilPeers
    /\ (AllSamePrograms ~> AllCallsReturned)
    /\ (SomeWorkerStopsShort => <>[]PeersBlockedForGood)

\* A worker blocked in a call that its peer, whose program has ended, never
\* makes.
C5_Witness ==
    \E w, u \in CollWorkers :
        /\ cin[w] = "in" /\ cdone[w] = 1
        /\ cin[u] = "out" /\ cdone[u] = 1 /\ Len(cprog[u]) = 1

(***************************************************************************)
(* Part 5. A distributed Vector: ghost exchange and norms.                 *)
(***************************************************************************)
NGlobal == 2

Workers   == {0, 1}
Globals   == 1..NGlobal
\* The values an entry takes in the model.
Vals      == {-1, 0, 1}
NormTypes == {"l1", "l2", "linf"}

RECURSIVE SumOver(_, _)
\* The sum of f[x] over the finite set S.
SumOver(f, S) ==
    IF S = {} THEN 0
    ELSE LET x == CHOOSE y \in S : TRUE IN f[x] + SumOver(f, S \ {x})

RECURSIVE MaxOver(_, _)
\* The largest f[x] over the finite set S, 0 when S is empty.
MaxOver(f, S) ==
    IF S = {} THEN 0
    ELSE LET x == CHOOSE y \in S : TRUE IN Max(f[x], MaxOver(f, S \ {x}))

\* The square root, rounded down.
ISqrt(n) == CHOOSE r \in 0..n : r * r <= n /\ (r + 1) * (r + 1) > n

\* IndexMap: the indices a worker owns, in local order; its ghosts, ordered
\* by owning rank and then by the owner's local order; size_local and
\* num_ghosts.
Owned(w)      == {g \in Globals : xowner[g] = w}
size_local(w) == Cardinality(Owned(w))
num_ghosts(w) == Cardinality(xghosts[w])
GhostSeq(w) ==
    LET key == [g \in xghosts[w] |-> xowner[g] * (NGlobal + 1) + g]
        keys == SetToSortedSeq({key[g] : g \in xghosts[w]})
    IN [i \in 1..Len(keys) |-> CHOOSE g \in xghosts[w] : key[g] = keys[i]]
LocalToGlobal(w) == SetToSortedSeq(Owned(w)) \o GhostSeq(w)
LocalIndex(w, g) == CHOOSE i \in 1..Len(LocalToGlobal(w)) : LocalToGlobal(w)[i] = g

NoOp == [op |-> "none"]

IdleDvec ==
    /\ xowner = [g \in Globals |-> 0]
    /\ xghosts = [w \in Workers |-> {}]
    /\ xarr = [w \in Workers |-> IF w = 0 THEN [i \in 1..NGlobal |-> 0] ELSE <<>>]
    /\ xlast = NoOp

\* create(index_map, block_size, dtype): every entry zero, for any ownership
\* and any ghost sets.
InitDvec ==
    /\ xowner \in [Globals -> Workers]
    /\ xghosts \in [Workers -> SUBSET Globals]
    /\ \A w \in Workers : xghosts[w] \cap Owned(w) = {}
    /\ xarr = [w \in Workers |-> [i \in 1..(size_local(w) + num_ghosts(w)) |-> 0]]
    /\ xlast = NoOp

\* Vector.array: the local buffer, written in place.
ArrayWrite(w, i, v) ==
    /\ i \in 1..Len(xarr[w])
    /\ xarr' = [xarr EXCEPT ![w][i] = v]
    /\ xlast' = [op |-> "write"]
    /\ UNCHANGED <<xowner, xghosts>>

\* The value the owner of g holds for it.
OwnerValue(arr, g) == arr[xowner[g]][LocalIndex(xowner[g], g)]
\* The global vector: every index with its owner's value.
GlobalVector(arr) == [g \in Globals |-> OwnerValue(arr, g)]
\* The workers that hold g as a ghost.
Ghosters(g) == {u \in Workers : g \in xghosts[u]}

\* Native scatter_forward: every ghost entry takes its owner's value.
cpp_scatter_forward(arr) ==
    [w \in Workers |->
        [i \in 1..Len(arr[w]) |->
            IF i <= size_local(w) THEN arr[w][i]
            ELSE OwnerValue(arr, LocalToGlobal(w)[i])]]

\* Native scatter_reverse: every owned entry that is a ghost elsewhere
\* takes, by mode, the ghost value of the worker pick[g] (insert: the last
\* writer wins) or its own value plus every ghost value (add). The ghost
\* entries are left as they are or zeroed (zero).
cpp_scatter_reverse(arr, mode, pick, zero) ==
    [w \in Workers |->
        [i \in 1..Len(arr[w]) |->
            LET g == LocalToGlobal(w)[i]
                gv == [u \in Ghosters(g) |-> arr[u][LocalIndex(u, g)]]
            IN IF i > size_local(w) THEN (IF zero THEN 0 ELSE arr[w][i])
               ELSE IF Ghosters(g) = {} THEN arr[w][i]
               ELSE IF mode = "insert" THEN gv[pick[g]]
               ELSE arr[w][i] + SumOver(gv, Ghosters(g))]]

\* The choices of the ghost whose value arrives last, per global index.
Picks ==
    {p \in [Globals -> Workers] :
        \A g \in Globals : p[g] \in (IF Ghosters(g) # {} THEN Ghosters(g)
                                                         ELSE {xowner[g]})}

InRange(arr) ==
    \A w \in Workers : \A i \in 1..Len(arr[w]) : arr[w][i] \in Vals

\* A faulty Vector.scatter_forward: the call is not passed on to the
\* native object.
VecScatterForward_noforward ==
    /\ xlast' = [op |-> "scatter_forward", pre |-> GlobalVector(xarr)]
    /\ UNCHANGED <<xowner, xghosts, xarr>>

\* Vector.scatter_forward(): self._cpp_object.scatter_forward(), on every
\* worker (the collective as a whole).
VecScatterForward ==
    /\ xarr' = cpp_scatter_forward(xarr)
    /\ xlast' = [op |-> "scatter_forward", pre |-> GlobalVector(xarr)]
    /\ UNCHANGED <<xowner, xghosts>>

\* Vector.scatter_reverse(mode): self._cpp_object.scatter_reverse(mode), on
\* every worker.
VecScatterReverse(mode) ==
    \E pick \in Picks, zero \in BOOLEAN :
        /\ InRange(cpp_scatter_reverse(xarr, mode, pick, zero))
        /\ xarr' = cpp_scatter_reverse(xarr, mode, pick, zero)
        /\ xlast' = [op |-> "scatter_reverse", mode |-> mode,
                     after_forward |-> xlast.op = "scatter_forward",
                     pre |-> IF xlast.op = "scatter_forward" THEN xlast.pre
                             ELSE GlobalVector(xarr)]
        /\ UNCHANGED <<xowner, xghosts>>

\* The local part of a norm: over the first size_local entries of the array.
LocalNorm(arr, w, type) ==
    LET own == 1..size_local(w)
    IN CASE type = "l1" -> SumOver([i \in own |-> Abs(arr[w][i])], own)
         [] type = "l2" -> SumOver([i \in own |-> arr[w][i] * arr[w][i]], own)
         [] type = "linf" -> MaxOver([i \in own |-> Abs(arr[w][i])], own)

\* Native norm: the local parts reduced over all workers (sum for l1 and
\* l2, max for linf), and the square root for l2. Every worker gets the
\* reduced value.
cpp_la_norm(arr, type) ==
    LET loc == [w \in Workers |-> LocalNorm(arr, w, type)]
        red == CASE type = "l1" -> SumOver(loc, Workers)
                 [] type = "l2" -> ISqrt(SumOver(loc, Workers))
                 [] type = "linf" -> MaxOver(loc, Workers)
    IN [w \in Workers |-> red]

\* A faulty norm: the type is not passed on, the native default (l2)
\* is computed.
norm_typedropped(arr, type) == cpp_la_norm(arr, "l2")

\* norm(x, type): return _cpp.la.norm(x._cpp_object, type)
norm(arr, type) == cpp_la_norm(arr, type)

VecNorm(type) ==
    /\ xlast' = [op |-> "norm", type |-> type, value |-> norm(xarr, type)]
    /\ UNCHANGED <<xowner, xghosts, xarr>>

NextDvec ==
    \/ \E w \in Workers, i \in 1..NGlobal, v \in Vals :
          ArrayWrite(w, i, v) /\ UNCHANGED <<vecVars, dispVars, scipyVars, collVars, matVars>>
    \/ VecScatterForward /\ UNCHANGED <<vecVars, dispVars, scipyVars, collVars, matVars>>
    \/ \E mode \in {"insert", "add"} :
          VecScatterReverse(mode) /\ UNCHANGED <<vecVars, dispVars, scipyVars, collVars, matVars>>
    \/ \E type \in NormTypes :
          VecNorm(type) /\ UNCHANGED <<vecVars, dispVars, scipyVars, collVars, matVars>>

\* C6: scatter_forward() followed at once by scatter_reverse(insert) leaves
\* every owned value on every worker as it was before the forward scatter.
C6_ForwardReverseInsertRoundTrip ==
    (xlast.op = "scatter_reverse" /\ xlast.mode = "insert" /\ xlast.after_forward)
        => GlobalVector(xarr) = xlast.pre

\* The round trip on a vector with a ghosted, nonzero owned entry.
C6_Witness ==
    /\ xlast.op = "scatter_reverse" /\ xlast.mode = "insert" /\ xlast.after_forward
    /\ \E g \in Globals : Ghosters(g) # {} /\ xlast.pre[g] # 0

\* The norm of a global vector, from the vector alone.
GlobalNorm(X, type) ==
    CASE type = "l1" -> SumOver([g \in Globals |-> Abs(X[g])], Globals)
      [] type = "l2" -> ISqrt(SumOver([g \in Globals |-> X[g] * X[g]], Globals))
      [] type = "linf" -> MaxOver([g \in Globals |-> Abs(X[g])], Globals)

\* C10: norm(x, type) is the norm of the global vector, whatever the
\* ownership, the ghost sets and the ghost values, and every worker gets the
\* same value.
C10_NormOwnedOnly ==
    xlast.op = "norm" =>
        \A w \in Workers : xlast.value[w] = GlobalNorm(GlobalVector(xarr), xlast.type)

\* An l1 norm taken while a ghost copy differs from its owner's nonzero
\* value.
C10_Witness ==
    /\ xlast.op = "norm" /\ xlast.type = "l1"
    /\ \E g \in Globals : \E u \in Ghosters(g) :
          /\ OwnerValue(xarr, g) # 0
          /\ xarr[u][LocalIndex(u, g)] # 0
          /\ xarr[u][LocalIndex(u, g)] # OwnerValue(xarr, g)

(***************************************************************************)
(* Part 6. A distributed MatrixCSR: insertion and ghost-row consolidation. *)
(* Block sizes are (1, 1) and add/set take one row and one column.         *)
(***************************************************************************)
MaxEntry == 2

MatIdx   == {1, 2}
\* The values add and set are given.
AddVals  == {-1, 1}
SetVals  == {0, 1}
Patterns == { {<<1, 1>>, <<1, 2>>, <<2, 2>>},
              {<<1, 1>>, <<2, 2>>} }

\* The row IndexMap of a worker: owned rows, then ghost rows.
MOwned(w)   == {r \in MatIdx : mowner[r] = w}
RowsL2G(w)  == SetToSortedSeq(MOwned(w)) \o SetToSortedSeq(mghosts[w])
\* The column IndexMap: owned columns, then the columns of other workers
\* that the worker's rows reach.
GhostCols(w) ==
    {c \in MatIdx : mowner[c] # w /\ \E r \in MOwned(w) \cup mghosts[w] : <<r, c>> \in mpat}
ColsL2G(w)  == SetToSortedSeq(MOwned(w)) \o SetToSortedSeq(GhostCols(w))
NRowsLocal(w) == Len(RowsL2G(w))
NColsLocal(w) == Len(ColsL2G(w))

\* The 0-based local columns stored in the 1-based local row i of worker w.
RowCols(w) ==
    [i \in 1..NRowsLocal(w) |->
        {j - 1 : j \in {k \in 1..NColsLocal(w) : <<RowsL2G(w)[i], ColsL2G(w)[k]>> \in mpat}}]

NoMatOp == [op |-> "none", rep |-> "none"]

IdleMat ==
    /\ mowner = [r \in MatIdx |-> 0]
    /\ mghosts = [w \in Workers |-> {}]
    /\ mpat = {}
    /\ mindptr = [w \in Workers |-> <<0>>]
    /\ mindices = [w \in Workers |-> <<>>]
    /\ mdata = [w \in Workers |-> <<>>]
    /\ mlast = NoMatOp
    /\ mtrack = FALSE

\* create(sparsity_pattern, block_mode, dtype): storage shaped by the
\* pattern, every value zero.
InitMat ==
    /\ mowner \in [MatIdx -> Workers]
    /\ mghosts \in [Workers -> SUBSET MatIdx]
    /\ \A w \in Workers : mghosts[w] \cap MOwned(w) = {}
    /\ mpat \in Patterns
    /\ mindptr = [w \in Workers |-> CsrIndptr(RowCols(w), NRowsLocal(w))]
    /\ mindices = [w \in Workers |-> CsrIndices(RowCols(w), NRowsLocal(w))]
    /\ mdata = [w \in Workers |->
                   [k \in 1..Len(CsrIndices(RowCols(w), NRowsLocal(w))) |-> 0]]
    /\ mlast = NoMatOp

\* The 1-based position in indices/data of the entry (row, col) of worker
\* w (both 0-based, local), or 0 when the row stores no such column.
FindSlot(w, row, col) ==
    LET lo == At0(mindptr[w], row) + 1
        hi == At0(mindptr[w], row + 1)
        hits == {p \in lo..hi : mindices[w][p] = col}
    IN IF hits = {} THEN 0 ELSE CHOOSE p \in hits : TRUE

\* Native add: accumulate x into the entry (row, col); it raises, and
\* stores nothing, when the pattern holds no such entry.
cpp_add(w, x, row, col) ==
    LET p == FindSlot(w, row, col)
    IN IF p = 0 THEN [raised |-> TRUE, data |-> mdata[w]]
       ELSE [raised |-> FALSE, data |-> [mdata[w] EXCEPT ![p] = @ + x]]

\* Native set: overwrite the entry (row, col) with x; it raises, and
\* stores nothing, when the pattern holds no such entry.
cpp_set(w, x, row, col) ==
    LET p == FindSlot(w, row, col)
    IN IF p = 0 THEN [raised |-> TRUE, data |-> mdata[w]]
       ELSE [raised |-> FALSE, data |-> [mdata[w] EXCEPT ![p] = x]]

\* Native set_value: every stored value becomes x.
cpp_set_value(w, x) == [k \in 1..Len(mdata[w]) |-> x]

\* Native mult: y += A x on the local rows; no communication.
cpp_mult(w, x, y) ==
    [i \in 1..NRowsLocal(w) |->
        LET ps == (mindptr[w][i] + 1)..mindptr[w][i + 1]
        IN y[i] + SumOver([p \in ps |-> mdata[w][p] * x[mindices[w][p] + 1]], ps)]

EntriesOk(d) == \A k \in 1..Len(d) : d[k] \in 0..MaxEntry

\* What an insertion call leaves in mlast: the call, whether it raised, the
\* data before it, and whether it follows an add on the same entry (with the
\* data before that add).
InsertRecord(op, w, x, row, col, raised) ==
    LET follows == /\ mtrack /\ mlast.op = "add" /\ ~mlast.raised /\ ~raised
                   /\ mlast.w = w /\ mlast.row = row /\ mlast.col = col
        rep == IF follows /\ op = "add" /\ mlast.x = x THEN "add_add"
               ELSE IF follows /\ op = "set" THEN "add_set"
               ELSE "none"
    IN IF mtrack
       THEN [op |-> op, w |-> w, x |-> x, row |-> row, col |-> col,
             raised |-> raised, pre |-> mdata, rep |-> rep,
             pre2 |-> IF rep = "none" THEN <<>> ELSE mlast.pre]
       ELSE [op |-> op, rep |-> "none"]

\* A faulty MatrixCSR.add: the wrapper forwards to the native set.
MatAdd_forwardsToSet(w, x, row, col) ==
    LET d == cpp_set(w, x, row, col)
    IN /\ EntriesOk(d.data)
       /\ mdata' = [mdata EXCEPT ![w] = d.data]
       /\ mlast' = InsertRecord("add", w, x, row, col, d.raised)
       /\ UNCHANGED <<mowner, mghosts, mpat, mindptr, mindices, mtrack>>

\* MatrixCSR.add(x, rows, cols, bs): self._cpp_object.add(x, rows, cols, bs)
MatAdd(w, x, row, col) ==
    LET d == cpp_add(w, x, row, col)
    IN /\ EntriesOk(d.data)
       /\ mdata' = [mdata EXCEPT ![w] = d.data]
       /\ mlast' = InsertRecord("add", w, x, row, col, d.raised)
       /\ UNCHANGED <<mowner, mghosts, mpat, mindptr, mindices, mtrack>>

\* A faulty MatrixCSR.set: the native error is caught and dropped.
MatSet_errorDropped(w, x, row, col) ==
    LET d == cpp_set(w, x, row, col)
    IN /\ mdata' = [mdata EXCEPT ![w] = d.data]
       /\ mlast' = InsertRecord("set", w, x, row, col, FALSE)
       /\ UNCHANGED <<mowner, mghosts, mpat, mindptr, mindices, mtrack>>

\* MatrixCSR.set(x, rows, cols, bs): self._cpp_object.set(x, rows, cols, bs)
MatSet(w, x, row, col) ==
    LET d == cpp_set(w, x, row, col)
    IN /\ mdata' = [mdata EXCEPT ![w] = d.data]
       /\ mlast' = InsertRecord("set", w, x, row, col, d.raised)
       /\ UNCHANGED <<mowner, mghosts, mpat, mindptr, mindices, mtrack>>

\* MatrixCSR.set_value(x): self._cpp_object.set_value(x)
MatSetValue(w, x) ==
    /\ mdata' = [mdata EXCEPT ![w] = cpp_set_value(w, x)]
    /\ mlast' = [op |-> "set_value", rep |-> "none"]
    /\ UNCHANGED <<mowner, mghosts, mpat, mindptr, mindices, mtrack>>

\* MatrixCSR.mult(x, y): self._cpp_object.mult(x._cpp_object, y._cpp_object),
\* here with y zero on entry.
MatMult(w, x) ==
    /\ Len(x) = NColsLocal(w)
    /\ mlast' = [op |-> "mult", w |-> w, x |-> x, rep |-> "none",
                 y |-> cpp_mult(w, x, [i \in 1..NRowsLocal(w) |-> 0])]
    /\ UNCHANGED <<mowner, mghosts, mpat, mindptr, mindices, mdata, mtrack>>

\* The value worker w stores for the global entry (r, c) in data d; 0 when
\* it stores none.
EntryOf(d, w, r, c) ==
    LET rows == {i \in 1..NRowsLocal(w) : RowsL2G(w)[i] = r}
        cols == {j \in 1..NColsLocal(w) : ColsL2G(w)[j] = c}
    IN IF rows = {} \/ cols = {} THEN 0
       ELSE LET p == FindSlot(w, (CHOOSE i \in rows : TRUE) - 1,
                                 (CHOOSE j \in cols : TRUE) - 1)
            IN IF p = 0 THEN 0 ELSE d[w][p]

\* Native scatter_reverse: the values of every ghost row are sent to the
\* row's owner, which adds them to its own; the ghost rows are then zeroed
\* (zero) or left as they are.
cpp_mat_scatter_reverse(d, zero) ==
    [w \in Workers |->
        [p \in 1..Len(d[w]) |->
            LET i == RowOfPos([indptr |-> mindptr[w]], p - 1) + 1
                r == RowsL2G(w)[i]
                c == ColsL2G(w)[mindices[w][p] + 1]
                from == {u \in Workers : r \in mghosts[u]}
            IN IF mowner[r] = w
               THEN d[w][p] + SumOver([u \in from |-> EntryOf(d, u, r, c)], from)
               ELSE IF zero THEN 0 ELSE d[w][p]]]

\* A faulty MatrixCSR.scatter_reverse: the call is not passed on.
MatScatterReverse_noforward ==
    /\ mlast' = [op |-> "scatter_reverse", pre |-> mdata, rep |-> "none"]
    /\ UNCHANGED <<mowner, mghosts, mpat, mindptr, mindices, mdata, mtrack>>

\* MatrixCSR.scatter_reverse(): self._cpp_object.scatter_reverse(), on every
\* worker.
MatScatterReverse ==
    \E zero \in BOOLEAN :
        /\ \A w \in Workers : EntriesOk(cpp_mat_scatter_reverse(mdata, zero)[w])
        /\ mdata' = cpp_mat_scatter_reverse(mdata, zero)
        /\ mlast' = [op |-> "scatter_reverse", pre |-> mdata, rep |-> "none"]
        /\ UNCHANGED <<mowner, mghosts, mpat, mindptr, mindices, mtrack>>

OtherParts == <<vecVars, dispVars, scipyVars, collVars, dvecVars>>

\* The calls one worker (worker 0) makes on its part of the matrix, and the
\* collective scatter_reverse; its peer is idle and holds no ghost rows.
NextMatLocal ==
    \/ \E x \in AddVals, row \in 0..1, col \in 0..1 :
          /\ row < NRowsLocal(0) /\ col < NColsLocal(0)
          /\ MatAdd(0, x, row, col)
          /\ UNCHANGED OtherParts
    \/ \E x \in SetVals, row \in 0..1, col \in 0..1 :
          /\ row < NRowsLocal(0) /\ col < NColsLocal(0)
          /\ MatSet(0, x, row, col)
          /\ UNCHANGED OtherParts
    \/ \E x \in {0, 1} : MatSetValue(0, x) /\ UNCHANGED OtherParts
    \/ \E x \in {<<>>, <<1>>, <<1, 1>>} : MatMult(0, x) /\ UNCHANGED OtherParts
    \/ MatScatterReverse /\ UNCHANGED OtherParts

\* Assembly on every worker, and the collective scatter_reverse.
NextMatDist ==
    \/ \E w \in Workers, x \in AddVals, row \in 0..1, col \in 0..1 :
          /\ row < NRowsLocal(w) /\ col < NColsLocal(w)
          /\ MatAdd(w, x, row, col)
          /\ UNCHANGED OtherParts
    \/ \E w \in Workers : MatSetValue(w, 0) /\ UNCHANGED OtherParts
    \/ MatScatterReverse /\ UNCHANGED OtherParts

\* The global (row, column) pair that worker w's 0-based local pair names.
GlobalPair(w, row, col) == <<RowsL2G(w)[row + 1], ColsL2G(w)[col + 1]>>

\* C7: add followed by add of the same value at the same (row, col) leaves
\* twice that value added to what the entry held, the first add having added
\* it once; set after add leaves exactly the value set; no other entry
\* changes.
C7_AddTwiceDoublesSetOverwrites ==
    mlast.rep # "none" =>
        LET w == mlast.w
            p == FindSlot(w, mlast.row, mlast.col)
        IN /\ p # 0
           /\ \A u \in Workers : \A k \in 1..Len(mdata[u]) :
                 (u # w \/ k # p) => mdata[u][k] = mlast.pre2[u][k]
           /\ mlast.rep = "add_add" =>
                 /\ mlast.pre[w][p] - mlast.pre2[w][p] = mlast.x
                 /\ mdata[w][p] - mlast.pre2[w][p] = 2 * mlast.x
           /\ mlast.rep = "add_set" => mdata[w][p] = mlast.x

\* Two equal adds on an entry that held a nonzero value.
C7_Witness ==
    /\ mlast.rep = "add_add"
    /\ mlast.pre2[mlast.w][FindSlot(mlast.w, mlast.row, mlast.col)] # 0

\* C8: indices and indptr stay as created whatever is called; an add or set
\* naming a (row, col) outside the pattern raises, and stores nothing.
C8_StructureFixed ==
    /\ \A w \in Workers :
          /\ mindptr[w] = CsrIndptr(RowCols(w), NRowsLocal(w))
          /\ mindices[w] = CsrIndices(RowCols(w), NRowsLocal(w))
          /\ Len(mdata[w]) = Len(mindices[w])
    /\ mlast.op \in {"add", "set"} =>
          /\ mlast.raised <=> (GlobalPair(mlast.w, mlast.row, mlast.col) \notin mpat)
          /\ mlast.raised => mdata = mlast.pre

\* An add outside the pattern, on a matrix that holds a nonzero value.
C8_Witness ==
    /\ mlast.op = "add" /\ mlast.raised
    /\ \E k \in 1..Len(mdata[0]) : mdata[0][k] # 0

\* The workers that hold the global row r: its owner and those that ghost it.
Holders(r) == {mowner[r]} \cup {u \in Workers : r \in mghosts[u]}

\* C9: after scatter_reverse every owned entry holds what its owner held
\* plus what every other worker held in its ghost copy of that entry, each
\* once; with no ghost rows anywhere nothing changes.
C9_ScatterReverseSums ==
    mlast.op = "scatter_reverse" =>
        /\ \A rc \in mpat :
              EntryOf(mdata, mowner[rc[1]], rc[1], rc[2])
                  = SumOver([u \in Holders(rc[1]) |-> EntryOf(mlast.pre, u, rc[1], rc[2])],
                            Holders(rc[1]))
        /\ (\A w \in Workers : mghosts[w] = {}) => mdata = mlast.pre

\* A scatter_reverse that adds a nonzero ghost value to a nonzero owned one.
C9_Witness ==
    /\ mlast.op = "scatter_reverse"
    /\ \E rc \in mpat : \E u \in Workers :
          /\ rc[1] \in mghosts[u]
          /\ EntryOf(mlast.pre, u, rc[1], rc[2]) # 0
          /\ EntryOf(mlast.pre, mowner[rc[1]], rc[1], rc[2]) # 0

(***************************************************************************)
(* Specifications.                                                         *)
(***************************************************************************)
InitSpecVec == InitVec /\ IdleDisp /\ IdleScipy /\ IdleColl /\ IdleDvec /\ IdleMat
SpecVec == InitSpecVec /\ [][NextVec]_vars

InitSpecDisp == IdleVec /\ InitDisp /\ IdleScipy /\ IdleColl /\ IdleDvec /\ IdleMat
SpecDisp == InitSpecDisp /\ [][NextDisp]_vars

InitSpecScipy == IdleVec /\ IdleDisp /\ InitScipy /\ IdleColl /\ IdleDvec /\ IdleMat
SpecScipy == InitSpecScipy /\ [][NextScipy]_vars

InitSpecColl == IdleVec /\ IdleDisp /\ IdleScipy /\ InitColl /\ IdleDvec /\ IdleMat
\* Every worker is a running process: a step it can take, it takes.
FairSpecColl ==
    /\ InitSpecColl
    /\ [][NextColl]_vars
    /\ \A w \in CollWorkers : WF_vars(WorkerStep(w))

InitSpecDvec == IdleVec /\ IdleDisp /\ IdleScipy /\ IdleColl /\ InitDvec /\ IdleMat
SpecDvec == InitSpecDvec /\ [][NextDvec]_vars

InitSpecMatLocal ==
    /\ IdleVec /\ IdleDisp /\ IdleScipy /\ IdleColl /\ IdleDvec /\ InitMat
    /\ mghosts[1] = {}
    /\ mtrack = TRUE
SpecMatLocal == InitSpecMatLocal /\ [][NextMatLocal]_vars

InitSpecMatDist ==
    IdleVec /\ IdleDisp /\ IdleScipy /\ IdleColl /\ IdleDvec /\ InitMat /\ mtrack = FALSE
SpecMatDist == InitSpecMatDist /\ [][NextMatDist]_vars

====
